---- MODULE Spec2Model ----
(***************************************************************************)
(* RUGGUARD LLM bot (src/RUGGUARD_LLM/main.py): the stream handler         *)
(* BotStreamListener.on_tweet, the profile aggregator                      *)
(* get_user_data_and_analyze and the analysis client get_llm_analysis.     *)
(*                                                                         *)
(* A text the code only compares or searches (the tweet body, the trigger  *)
(* phrase) is a sequence of characters.  A text the code only assembles    *)
(* (the prompt, the report) is a sequence of tokens: the literal pieces of *)
(* the f-strings and the interpolated values, "\n" being a token.          *)
(* A Python value that may be None is a sequence of length at most one.    *)
(***************************************************************************)
EXTENDS Integers, Sequences, FiniteSets, TLC

VARIABLES
    pc,                 \* position of the handler thread
    state,              \* state of the current event (spec section 4.4)
    tweet,              \* the event on_tweet was called with
    original_tweet_id,  \* on_tweet local
    target_user_id,     \* on_tweet local
    user,               \* get_user_data_and_analyze local
    recent_tweets_text, \* get_user_data_and_analyze local
    compiled_data,      \* get_user_data_and_analyze local
    llm_summary,        \* get_user_data_and_analyze local
    final_report,       \* on_tweet local
    calls,              \* the external calls issued for the current event
    crashed,            \* an exception escaped on_tweet
    env,                \* the six configuration values of the process
    clients,            \* the API client objects constructed so far
    stream_rules,       \* the filter rules registered on the platform
    rules,              \* __main__ local: what get_rules().data returned
    boot_calls,         \* the stream operations issued by this process
    fatal,              \* the error that ended the process, "none" if none
    runs                \* how many times the process has been started

\* the variables of on_tweet and of the functions it calls
handler_vars == <<state, tweet, original_tweet_id, target_user_id, user,
                  recent_tweets_text, compiled_data, llm_summary, final_report,
                  calls, crashed>>

\* the variables of the module-level code and of the __main__ block
boot_vars == <<env, clients, stream_rules, rules, boot_calls, fatal, runs>>

vars == <<pc, handler_vars, boot_vars>>

(***************************************************************************)
(* Bounds of the model.                                                    *)
(***************************************************************************)
\* followers and following counts range over 0..MaxCount
MaxCount == 3
\* a timeline holds at most MaxPosts original posts
MaxPosts == 2
\* the process is started at most MaxRuns times
MaxRuns == 2
\* the prompt builder is invoked at most MaxPrompts times in a row
MaxPrompts == 3

None == <<>>
Some(x) == <<x>>
IsNone(o) == Len(o) = 0
Get(o) == o[1]

(***************************************************************************)
(* Bot settings, lines 40-41.                                              *)
(***************************************************************************)
BOT_USERNAME ==
    <<"p","r","o","j","e","c","t","r","u","g","g","a","u","r","d">>

TRIGGER_PHRASE ==
    <<"r","i","d","d","l","e"," ","m","e"," ","t","h","i","s">>

(***************************************************************************)
(* str.lower() and the substring test `a in b`.                            *)
(***************************************************************************)
UpperLetters ==
    <<"A","B","C","D","E","F","G","H","I","J","K","L","M",
      "N","O","P","Q","R","S","T","U","V","W","X","Y","Z">>

LowerLetters ==
    <<"a","b","c","d","e","f","g","h","i","j","k","l","m",
      "n","o","p","q","r","s","t","u","v","w","x","y","z">>

\* the letter table of str.lower()
ToLower ==
    [c \in {UpperLetters[i] : i \in 1..Len(UpperLetters)} |->
        LowerLetters[CHOOSE i \in 1..Len(UpperLetters) : UpperLetters[i] = c]]

LowerChar(c) == IF c \in DOMAIN ToLower THEN ToLower[c] ELSE c

Lower(s) == [i \in 1..Len(s) |-> LowerChar(s[i])]

Contains(needle, hay) ==
    \E k \in 0..(Len(hay) - Len(needle)) :
        \A i \in 1..Len(needle) : hay[k + i] = needle[i]

(***************************************************************************)
(* The stream events delivered to on_tweet.  referenced_tweets is the      *)
(* list of relations of the event, <<>> when the event has none (tweepy    *)
(* leaves the attribute None; both are falsy at line 142).                 *)
(***************************************************************************)
TextScenario ==
    <<"@","p","r","o","j","e","c","t","r","u","g","g","a","u","r","d"," ",
      "r","i","d","d","l","e"," ","m","e"," ","t","h","i","s">>

TextUpper ==
    <<"@","P","r","o","j","e","c","t","R","u","g","g","a","u","r","d"," ",
      "R","I","D","D","L","E"," ","M","E"," ","T","H","I","S">>

TextNoMention ==
    <<"R","i","d","d","l","e"," ","M","e"," ","T","h","i","s",","," ",
      "w","h","o"," ","i","s"," ","i","t","?">>

TextTruncated ==
    <<"@","p","r","o","j","e","c","t","r","u","g","g","a","u","r","d"," ",
      "r","i","d","d","l","e"," ","m","e">>

TextGapped ==
    <<"r","i","d","d","l","e"," "," ","m","e"," ","t","h","i","s">>

TextOther == <<"g","m">>

TweetTexts ==
    {TextScenario, TextUpper, TextNoMention, TextTruncated, TextGapped, TextOther}

Ref(t, i) == [type |-> t, id |-> i]

ReferencedTweets ==
    { <<>>,
      <<Ref("replied_to", 99)>>,
      <<Ref("replied_to", 55)>>,
      <<Ref("quoted", 55)>>,
      <<Ref("retweeted", 99)>>,
      <<Ref("replied_to", 99), Ref("quoted", 55)>>,
      <<Ref("quoted", 55), Ref("replied_to", 99)>> }

\* who wrote each tweet of the platform: 1 and 2 are the triggering tweets,
\* 55 and 99 the tweets they refer to
AuthorOf ==
    [i \in {1, 2, 55, 99} |->
        CASE i = 1 -> "u_bob"
          [] i = 2 -> "u_carol"
          [] i = 55 -> "u_dave"
          [] OTHER -> "u_alice"]

\* the event as delivered with expansions=["author_id"], line 178
Event(i, t, r) ==
    [id |-> i, author_id |-> AuthorOf[i], text |-> t, referenced_tweets |-> r]

\* every body as a plain reply, and every list of relations with a body that
\* holds the phrase and with one that does not
Events ==
    { Event(1, t, <<Ref("replied_to", 99)>>) : t \in TweetTexts }
    \cup { Event(2, t, r) : t \in {TextScenario, TextOther}, r \in ReferencedTweets }

(***************************************************************************)
(* The platform as the handler sees it: the handle of each user and what   *)
(* the lookups can answer.                                                 *)
(***************************************************************************)
UsernameOf ==
    [u \in {"u_alice", "u_dave", "u_bob", "u_carol"} |->
        CASE u = "u_alice" -> "alice"
          [] u = "u_dave" -> "dave"
          [] u = "u_bob" -> "bob"
          [] OTHER -> "carol"]

\* x_client.get_tweet(id, expansions=["author_id"]): the call raises, the
\* response has no data, or the data has an author_id or none
TweetResponses(id) ==
    { [raises |-> TRUE, data |-> None],
      [raises |-> FALSE, data |-> None],
      [raises |-> FALSE, data |-> Some([author_id |-> None])] }
    \cup (IF id \in DOMAIN AuthorOf
          THEN {[raises |-> FALSE, data |-> Some([author_id |-> Some(AuthorOf[id])])]}
          ELSE {})

Counts == 0..MaxCount

PublicMetrics ==
    { [followers_count |-> f, following_count |-> g] : f \in Counts, g \in Counts }
    \cup { [followers_count |-> 1000, following_count |-> 100] }

\* account creation timestamps: the day number and the calendar month
CreatedAts == { [ordinal |-> 400, year |-> 2025, month |-> 10] }

\* datetime.now(timezone.utc), as a day number
Clock == {800}

Descriptions == {None, Some(""), Some("builder")}

\* the user objects tweepy builds: username is always set, the requested
\* user_fields are None when the payload leaves them out
Users(id) ==
    { [username |-> UsernameOf[id], created_at |-> c, description |-> d,
       public_metrics |-> m, verified |-> v] :
        c \in {None} \cup {Some(x) : x \in CreatedAts},
        d \in Descriptions,
        m \in {None} \cup {Some(x) : x \in PublicMetrics},
        v \in {None, Some(TRUE), Some(FALSE)} }

\* x_client.get_user(id, user_fields): raises (always so without an id), no
\* data, or a user object
UserResponses(id) ==
    IF IsNone(id)
    THEN { [raises |-> TRUE, data |-> None] }
    ELSE { [raises |-> TRUE, data |-> None], [raises |-> FALSE, data |-> None] }
         \cup { [raises |-> FALSE, data |-> Some(u)] : u \in Users(Get(id)) }

PostBody(i) == "post " \o ToString(i)

\* x_client.get_users_tweets(id, max_results=5, exclude=...): raises, no data
\* (the user has no original post), or the most recent posts
TweetsResponses ==
    { [raises |-> TRUE, data |-> None], [raises |-> FALSE, data |-> None] }
    \cup { [raises |-> FALSE,
            data |-> Some([i \in 1..n |-> [text |-> PostBody(i)]])] : n \in 1..MaxPosts }

\* gemini_model.generate_content(prompt): the call raises, or it returns a
\* response whose .text raises (a blocked or empty candidate) or is a text
LLMTexts ==
    { <<"Looks genuine.", "\n", "Trust Signal: Positive">>,
      <<" ", "Engagement farming.", "\n", "Trust Signal: Red Flag", "\n">>,
      <<"\n", " ">> }

LLMResponses ==
    { [raises |-> TRUE, text |-> None], [raises |-> FALSE, text |-> None] }
    \cup { [raises |-> FALSE, text |-> Some(t)] : t \in LLMTexts }

\* x_client.create_tweet(...) succeeds or raises
PostOutcomes == {TRUE, FALSE}

(***************************************************************************)
(* get_llm_analysis, lines 48-80.                                          *)
(***************************************************************************)
Whitespace == {" ", "\n"}

RECURSIVE LStrip(_)
LStrip(t) ==
    IF t # <<>> /\ Head(t) \in Whitespace THEN LStrip(Tail(t)) ELSE t

RECURSIVE RStrip(_)
RStrip(t) ==
    IF t # <<>> /\ t[Len(t)] \in Whitespace
    THEN RStrip(SubSeq(t, 1, Len(t) - 1))
    ELSE t

\* str.strip(), line 77
Strip(t) == RStrip(LStrip(t))

\* the value of follower_ratio as str() renders it: the int 0 as "0", a float
\* with the shortest decimals ("10.0", "0.5", "0.33")
FormatRatio(r) ==
    IF ~r.float
    THEN ToString(r.hundredths \div 100)
    ELSE LET whole == r.hundredths \div 100
             frac == r.hundredths % 100
         IN  IF frac % 10 = 0
             THEN ToString(whole) \o "." \o ToString(frac \div 10)
             ELSE ToString(whole) \o "." \o ToString(frac \div 10) \o ToString(frac % 10)

\* line 63 printing Yes for everything but False
VerifiedLabel_NotFalse(is_verified) ==
    IF is_verified = Some(FALSE) THEN "No" ELSE "Yes"

\* line 63: 'Yes' if user_data['is_verified'] else 'No' (None is false)
VerifiedLabel(is_verified) ==
    IF is_verified = Some(TRUE) THEN "Yes" ELSE "No"

\* the f-string of lines 53-72
Prompt(user_data) ==
    << "You are an expert crypto project analyst [...] positive signals.", "\n",
       "**Data for User @", user_data.username, ":**", "\n",
       "- **Account Age:** ", ToString(user_data.age_days), " days (Created: ",
           user_data.created_at, ")", "\n",
       "- **Follower Count:** ", ToString(user_data.followers), "\n",
       "- **Following Count:** ", ToString(user_data.following), "\n",
       "- **Follower/Following Ratio:** ", FormatRatio(user_data.follower_ratio), "\n",
       "- **X Verified Status:** ",
           VerifiedLabel(user_data.is_verified), "\n",
       "- **User Bio:** \"", user_data.bio, "\"", "\n",
       "- **Recent Tweets:**", "\n" >>
    \o user_data.recent_tweets \o
    << "\n",
       "**Instructions:**", "\n",
       "1. Write a one-paragraph summary of your findings.", "\n",
       "2. Conclude with a final \"Trust Signal\" on a new line. The signal must be one of: Positive, Neutral, Caution, or Red Flag.", "\n",
       "3. Your entire response should only be the summary paragraph and the Trust Signal line. Do not be conversational.", "\n" >>

LLM_FALLBACK == <<"LLM analysis could not be performed due to an API error.">>

\* lines 74-80 without the try block
llm_try_None == {}

\* lines 74-80 with the read of response.text moved out of the try block
llm_try_CallOnly == {"generate_content"}

\* the sites of get_llm_analysis inside its try block, lines 74-80
llm_try == {"generate_content", "response_text"}

\* lines 76-80: what get_llm_analysis returns, or that it raises
LlmAnalysis(resp) ==
    LET site == IF resp.raises THEN "generate_content"
                ELSE IF IsNone(resp.text) THEN "response_text"
                ELSE "none"
    IN  IF site = "none" THEN [raises |-> FALSE, value |-> Strip(Get(resp.text))]
        ELSE IF site \in llm_try THEN [raises |-> FALSE, value |-> LLM_FALLBACK]
        ELSE [raises |-> TRUE, value |-> <<>>]

(***************************************************************************)
(* get_user_data_and_analyze, lines 82-130.                                *)
(***************************************************************************)
USER_NOT_FOUND == <<"Analysis Failed: User not found.">>

DATA_FETCH_FAILED ==
    <<"Analysis Failed: Could not retrieve complete user data from X.">>

NO_RECENT_TWEETS == <<"No recent tweets found.">>

RECURSIVE JoinLines(_)
\* "\n".join(lines)
JoinLines(lines) ==
    IF lines = <<>> THEN <<>>
    ELSE IF Len(lines) = 1 THEN lines[1]
    ELSE lines[1] \o <<"\n">> \o JoinLines(Tail(lines))

\* line 98
RecentTweetsText(data) ==
    IF IsNone(data) \/ Get(data) = <<>>
    THEN NO_RECENT_TWEETS
    ELSE JoinLines([i \in 1..Len(Get(data)) |-> <<"- '", Get(data)[i].text, "'">>])

\* a / b of two ints: ZeroDivisionError when b = 0, else the quotient
TrueDiv(a, b) ==
    IF b = 0 THEN [raises |-> TRUE, float |-> TRUE, num |-> 0, den |-> 1]
    ELSE [raises |-> FALSE, float |-> TRUE, num |-> a, den |-> b]

\* line 102 without the guard
FollowerRatio_NoGuard(followers_count, following_count) ==
    TrueDiv(followers_count, following_count)

\* line 102
FollowerRatio(followers_count, following_count) ==
    IF following_count > 0
    THEN TrueDiv(followers_count, following_count)
    ELSE [raises |-> FALSE, float |-> FALSE, num |-> 0, den |-> 1]

\* round(x, 2), line 110: the nearest hundredth, a tie going to the even one;
\* an int stays an int
Round2(x) ==
    LET q == (100 * x.num) \div x.den
        r == (100 * x.num) % x.den
        h == IF 2 * r > x.den THEN q + 1
             ELSE IF 2 * r < x.den THEN q
             ELSE IF q % 2 = 0 THEN q ELSE q + 1
    IN  [float |-> x.float, hundredths |-> h]

MonthAbbr ==
    <<"Jan", "Feb", "Mar", "Apr", "May", "Jun",
      "Jul", "Aug", "Sep", "Oct", "Nov", "Dec">>

\* created_at.strftime('%b %Y'), line 107
CreatedLabel(c) == MonthAbbr[c.month] \o " " \o ToString(c.year)

\* lines 101-102 and 106-107 raise on a None operand (an AttributeError, a
\* TypeError) and on a division by zero
CompileRaises(u) ==
    \/ IsNone(u)
    \/ IsNone(Get(u).public_metrics)
    \/ FollowerRatio(Get(Get(u).public_metrics).followers_count,
                     Get(Get(u).public_metrics).following_count).raises
    \/ IsNone(Get(u).created_at)

\* lines 101-114
CompiledData(u, recent, now) ==
    LET metrics == Get(u.public_metrics)
        follower_ratio ==
            FollowerRatio(metrics.followers_count, metrics.following_count)
    IN  [ username |-> u.username,
          age_days |-> now - Get(u.created_at).ordinal,
          created_at |-> CreatedLabel(Get(u.created_at)),
          followers |-> metrics.followers_count,
          following |-> metrics.following_count,
          follower_ratio |-> Round2(follower_ratio),
          is_verified |-> u.verified,
          bio |-> IF IsNone(u.description) \/ Get(u.description) = ""
                  THEN "Not provided."
                  ELSE Get(u.description),
          recent_tweets |-> recent ]

ROBOT == "U+1F916"

SEPARATOR == "-----------------------------------"

FOOTER == "Analyzed by #ProjectRUGGUARD w/ Gemini 1.5 Flash"

\* lines 120-126
Report(username, summary) ==
    << ROBOT, " LLM-Powered Analysis for @", username, "\n", SEPARATOR, "\n" >>
    \o summary \o
    << "\n", SEPARATOR, "\n", FOOTER >>

\* the sites of get_user_data_and_analyze inside its try block, lines 87-130
analyze_try == {"get_user", "get_users_tweets", "compile", "get_llm_analysis"}

(***************************************************************************)
(* BotStreamListener.on_tweet, lines 141-156.                              *)
(***************************************************************************)
\* line 142 without the test of the relation's type
IsReply_AnyRelation(referenced_tweets) == referenced_tweets # <<>>

\* line 142
IsReply(referenced_tweets) ==
    referenced_tweets # <<>> /\ referenced_tweets[1].type = "replied_to"

\* line 143 looking for the first word of the phrase only
HasTrigger_FirstWord(text) ==
    Contains(Lower(<<"r","i","d","d","l","e">>), Lower(text))

\* line 143
HasTrigger(text) == Contains(Lower(TRIGGER_PHRASE), Lower(text))

\* line 143
Accepts(t) == IsReply(t.referenced_tweets) /\ HasTrigger(t.text)

\* lines 145-156 with the reply post moved out of the try block
on_tweet_try_NoPost == {"get_tweet", "data_author_id", "raise_not_found",
                        "get_user_data_and_analyze"}

\* the sites of on_tweet inside its try block, lines 145-156
on_tweet_try ==
    {"get_tweet", "data_author_id", "raise_not_found",
     "get_user_data_and_analyze", "create_tweet"}

\* line 146 taking the id of the triggering tweet itself
OriginalTweetId_Self(t) == t.id

\* line 146
OriginalTweetId(t) == t.referenced_tweets[1].id

\* line 93 without the test: an absent profile is used as if it were there
UserMissing_Unchecked(data) == FALSE

\* line 93
UserMissing(data) == IsNone(data)

\* line 149 without the test: the pipeline runs whatever the lookup gave
AuthorFound_Always(author_id) == TRUE

\* line 149
AuthorFound(author_id) == ~IsNone(author_id)

\* lines 155-156 posting again after a failed reply post
OnTweetRaise_Retry(site, report) ==
    IF site = "create_tweet"
    THEN [pc |-> "create_tweet", state |-> "Replying", crashed |-> FALSE, report |-> report]
    ELSE [pc |-> "listening", state |-> "Failed", crashed |-> FALSE, report |-> report]

\* an exception raised at `site` of on_tweet: caught and logged at lines
\* 155-156 when the site is inside the try block, else it leaves on_tweet
OnTweetRaise(site, report) ==
    IF site \in on_tweet_try
    THEN [pc |-> "listening", state |-> "Failed", crashed |-> FALSE, report |-> report]
    ELSE [pc |-> "crashed", state |-> "Failed", crashed |-> TRUE, report |-> report]

\* get_user_data_and_analyze returns `text`: line 150 assigns it and on_tweet
\* goes on to line 151
AnalyzeReturn(text) ==
    [pc |-> "create_tweet", state |-> "Replying", crashed |-> FALSE, report |-> text]

\* lines 128-130 issuing a failed fetch once more instead of giving up
AnalyzeRaise_Retry(site, report) ==
    IF site \in {"get_user", "get_users_tweets"}
    THEN [pc |-> site, state |-> "Analyzing", crashed |-> FALSE, report |-> report]
    ELSE AnalyzeReturn(DATA_FETCH_FAILED)

\* an exception raised at `site` of get_user_data_and_analyze: lines 128-130
\* turn it into the fixed message when the site is inside the try block
AnalyzeRaise(site, report) ==
    IF site \in analyze_try
    THEN AnalyzeReturn(DATA_FETCH_FAILED)
    ELSE OnTweetRaise("get_user_data_and_analyze", report)

(***************************************************************************)
(* Module-level configuration, lines 12-37, and the __main__ block, lines  *)
(* 165-178.                                                                *)
(***************************************************************************)
\* lines 15-20
ConfigKeys ==
    {"X_BEARER_TOKEN", "X_API_KEY", "X_API_KEY_SECRET", "X_ACCESS_TOKEN",
     "X_ACCESS_TOKEN_SECRET", "GOOGLE_API_KEY"}

\* os.getenv(key): None when the variable is not set, else its value
EnvValues == {None, Some(""), Some("secret")}

Environments == [ConfigKeys -> EnvValues]

\* the truth value of an os.getenv result: None and "" are false
Truthy(v) == ~IsNone(v) /\ Get(v) # ""

\* line 23 with any() in place of all()
ConfigComplete_Any(e) == \E k \in ConfigKeys : Truthy(e[k])

\* line 23
ConfigComplete(e) == \A k \in ConfigKeys : Truthy(e[k])

\* line 174
STREAM_RULE == <<"@">> \o BOT_USERNAME \o <<" ">> \o TRIGGER_PHRASE

\* rules another run or another tool may have left on the stream
ForeignRules ==
    { [id |-> 2, value |-> TRIGGER_PHRASE], [id |-> 3, value |-> <<"g","m">>] }

\* what can be registered when the process starts
InitialRuleSets == SUBSET ({[id |-> 1, value |-> STREAM_RULE]} \cup ForeignRules)

\* the id the platform gives to a new rule
FreshId(registered) ==
    IF registered = {} THEN 1
    ELSE 1 + (CHOOSE m \in {r.id : r \in registered} :
                  \A r \in registered : r.id <= m)

\* line 171 clearing nothing
RuleIdsToDelete_None(found) == {}

\* line 171: [rule.id for rule in rules]
RuleIdsToDelete(found) == {r.id : r \in found}

\* an external call: the operation, its argument, what it answered
Call(op, arg, resp) == [op |-> op, arg |-> arg, resp |-> resp]

NoTweet == [id |-> 0, author_id |-> "", text |-> <<>>, referenced_tweets |-> <<>>]

\* the handler's variables before the first event
HandlerInit ==
    /\ state = "Idle"
    /\ tweet = NoTweet
    /\ original_tweet_id = None
    /\ target_user_id = None
    /\ user = None
    /\ recent_tweets_text = <<>>
    /\ compiled_data = None
    /\ llm_summary = <<>>
    /\ final_report = <<>>
    /\ calls = <<>>
    /\ crashed = FALSE

\* the stream is open: the process was started once with its six values set
\* and no rule registered, and lines 12-178 have run
Listening ==
    /\ env = [k \in ConfigKeys |-> Some("secret")]
    /\ clients = {"x_client", "gemini_model", "listener"}
    /\ stream_rules = {[id |-> 1, value |-> STREAM_RULE]}
    /\ rules = None
    /\ boot_calls = <<"get_rules", "add_rules", "filter">>
    /\ fatal = "none"
    /\ runs = 1

Init ==
    /\ pc = "listening"
    /\ HandlerInit
    /\ Listening

\* the process is started: load_dotenv() and lines 15-20 have read the values
InitStartup ==
    /\ pc = "boot"
    /\ HandlerInit
    /\ env \in Environments
    /\ clients = {}
    /\ stream_rules \in InitialRuleSets
    /\ rules = None
    /\ boot_calls = <<>>
    /\ fatal = "none"
    /\ runs = 1

\* lines 23-24
Validate ==
    /\ pc = "boot"
    /\ IF ConfigComplete(env)
       THEN pc' = "configure" /\ fatal' = fatal
       ELSE pc' = "exited" /\ fatal' = "ValueError"
    /\ UNCHANGED <<handler_vars, env, clients, stream_rules, rules, boot_calls, runs>>

\* lines 27-37: the constructors return, or one of them raises
Configure(outcome) ==
    /\ pc = "configure"
    /\ clients' = CASE outcome = "ok" -> {"x_client", "gemini_model"}
                    [] outcome = "genai_raises" -> {"x_client"}
                    [] OTHER -> {}
    /\ IF outcome = "ok"
       THEN pc' = "main" /\ fatal' = fatal
       ELSE pc' = "exited" /\ fatal' = "ConnectionError"
    /\ UNCHANGED <<handler_vars, env, stream_rules, rules, boot_calls, runs>>

\* line 167
ConstructListener ==
    /\ pc = "main"
    /\ clients' = clients \cup {"listener"}
    /\ pc' = "get_rules"
    /\ UNCHANGED <<handler_vars, env, stream_rules, rules, boot_calls, fatal, runs>>

\* line 170: listener.get_rules() returns the registered rules, or raises
GetRules(ok) ==
    /\ pc = "get_rules"
    /\ boot_calls' = Append(boot_calls, "get_rules")
    /\ IF ok
       THEN /\ rules' = IF stream_rules = {} THEN None ELSE Some(stream_rules)
            /\ pc' = IF stream_rules = {} THEN "add_rules" ELSE "delete_rules"
            /\ fatal' = fatal
       ELSE /\ rules' = rules
            /\ pc' = "exited"
            /\ fatal' = "ApiError"
    /\ UNCHANGED <<handler_vars, env, clients, stream_rules, runs>>

\* line 171: listener.delete_rules(ids) removes the rules, or raises
DeleteRules(ok) ==
    /\ pc = "delete_rules"
    /\ boot_calls' = Append(boot_calls, "delete_rules")
    /\ IF ok
       THEN /\ stream_rules' =
                   {r \in stream_rules : r.id \notin RuleIdsToDelete(Get(rules))}
            /\ pc' = "add_rules"
            /\ fatal' = fatal
       ELSE /\ stream_rules' = stream_rules
            /\ pc' = "exited"
            /\ fatal' = "ApiError"
    /\ UNCHANGED <<handler_vars, env, clients, rules, runs>>

\* lines 174-175: listener.add_rules(StreamRule(rule)) registers it, or raises
AddRules(ok) ==
    /\ pc = "add_rules"
    /\ boot_calls' = Append(boot_calls, "add_rules")
    /\ IF ok
       THEN /\ stream_rules' = stream_rules \cup
                   {[id |-> FreshId(stream_rules), value |-> STREAM_RULE]}
            /\ pc' = "filter"
            /\ fatal' = fatal
       ELSE /\ stream_rules' = stream_rules
            /\ pc' = "exited"
            /\ fatal' = "ApiError"
    /\ UNCHANGED <<handler_vars, env, clients, rules, runs>>

\* line 178: listener.filter(...) opens the stream, or raises
Filter(ok) ==
    /\ pc = "filter"
    /\ boot_calls' = Append(boot_calls, "filter")
    /\ IF ok
       THEN pc' = "listening" /\ fatal' = fatal
       ELSE pc' = "exited" /\ fatal' = "ApiError"
    /\ UNCHANGED <<handler_vars, env, clients, stream_rules, rules, runs>>

\* the process has ended, or is stopped, and is started again: the platform
\* keeps the rules, the new process has nothing else
Restart ==
    /\ pc \in {"exited", "listening"}
    /\ runs < MaxRuns
    /\ runs' = runs + 1
    /\ pc' = "boot"
    /\ clients' = {}
    /\ rules' = None
    /\ boot_calls' = <<>>
    /\ fatal' = "none"
    /\ UNCHANGED <<handler_vars, env, stream_rules>>

NextStartup ==
    \/ Validate
    \/ \E outcome \in {"ok", "x_raises", "genai_raises"} : Configure(outcome)
    \/ ConstructListener
    \/ \E ok \in BOOLEAN : GetRules(ok)
    \/ \E ok \in BOOLEAN : DeleteRules(ok)
    \/ \E ok \in BOOLEAN : AddRules(ok)
    \/ \E ok \in BOOLEAN : Filter(ok)
    \/ Restart

SpecStartup == InitStartup /\ [][NextStartup]_vars

\* line 178 with threaded delivery: an event is handed over at any time
StreamDelivers_Threaded == pc # "crashed"

\* line 178: filter() reads the stream in the calling thread and calls
\* on_tweet for each event, so the next event is read once on_tweet returned
StreamDelivers == pc = "listening"

\* lines 141-146: the stream transport calls on_tweet with the next event
OnTweet(t) ==
    /\ StreamDelivers
    /\ tweet' = t
    /\ target_user_id' = None
    /\ user' = None
    /\ recent_tweets_text' = <<>>
    /\ compiled_data' = None
    /\ llm_summary' = <<>>
    /\ final_report' = <<>>
    /\ calls' = <<>>
    /\ crashed' = FALSE
    /\ UNCHANGED boot_vars
    /\ IF Accepts(t)
       THEN /\ original_tweet_id' = Some(OriginalTweetId(t))
            /\ pc' = "get_tweet"
            /\ state' = "Resolving"
       ELSE /\ original_tweet_id' = None
            /\ pc' = "listening"
            /\ state' = "Rejected"

\* lines 147-154: the lookup of the referenced tweet returns
GetTweet(resp) ==
    /\ pc = "get_tweet"
    /\ calls' = Append(calls, Call("get_tweet", Get(original_tweet_id), resp))
    /\ LET author == IF resp.raises \/ IsNone(resp.data) THEN None
                     ELSE Get(resp.data).author_id
           next == IF resp.raises THEN OnTweetRaise("get_tweet", final_report)
                   ELSE IF IsNone(resp.data) THEN OnTweetRaise("data_author_id", final_report)
                   ELSE IF AuthorFound(author)
                        THEN [pc |-> "get_user", state |-> "Analyzing",
                              crashed |-> FALSE, report |-> final_report]
                   ELSE OnTweetRaise("raise_not_found", final_report)
       IN  /\ target_user_id' = author
           /\ pc' = next.pc
           /\ state' = next.state
           /\ crashed' = next.crashed
           /\ final_report' = next.report
    /\ UNCHANGED <<tweet, original_tweet_id, user, recent_tweets_text,
                   compiled_data, llm_summary>>
    /\ UNCHANGED boot_vars

\* lines 89-94: the profile fetch returns
GetUser(resp) ==
    /\ pc = "get_user"
    /\ calls' = Append(calls, Call("get_user", target_user_id, resp))
    /\ LET next == IF resp.raises THEN AnalyzeRaise("get_user", final_report)
                   ELSE IF UserMissing(resp.data) THEN AnalyzeReturn(USER_NOT_FOUND)
                   ELSE [pc |-> "get_users_tweets", state |-> "Analyzing",
                         crashed |-> FALSE, report |-> final_report]
       IN  /\ user' = resp.data
           /\ pc' = next.pc
           /\ state' = next.state
           /\ crashed' = next.crashed
           /\ final_report' = next.report
    /\ UNCHANGED <<tweet, original_tweet_id, target_user_id, recent_tweets_text,
                   compiled_data, llm_summary>>
    /\ UNCHANGED boot_vars

\* lines 97-114: the posts fetch returns and the record is compiled
GetUsersTweets(resp, now) ==
    /\ pc = "get_users_tweets"
    /\ calls' = Append(calls, Call("get_users_tweets", target_user_id, resp))
    /\ LET recent == IF resp.raises THEN recent_tweets_text
                     ELSE RecentTweetsText(resp.data)
           compiles == ~resp.raises /\ ~CompileRaises(user)
           next == IF resp.raises THEN AnalyzeRaise("get_users_tweets", final_report)
                   ELSE IF ~compiles THEN AnalyzeRaise("compile", final_report)
                   ELSE [pc |-> "generate_content", state |-> "Analyzing",
                         crashed |-> FALSE, report |-> final_report]
       IN  /\ recent_tweets_text' = recent
           /\ compiled_data' = IF compiles
                               THEN Some(CompiledData(Get(user), recent, now))
                               ELSE None
           /\ pc' = next.pc
           /\ state' = next.state
           /\ crashed' = next.crashed
           /\ final_report' = next.report
    /\ UNCHANGED <<tweet, original_tweet_id, target_user_id, user, llm_summary>>
    /\ UNCHANGED boot_vars

\* lines 117-126 with 74-80: the LLM call returns and the report is formatted
GenerateContent(resp) ==
    /\ pc = "generate_content"
    /\ calls' = Append(calls,
                       Call("generate_content", Prompt(Get(compiled_data)), resp))
    /\ LET r == LlmAnalysis(resp)
           next == IF r.raises THEN AnalyzeRaise("get_llm_analysis", final_report)
                   ELSE AnalyzeReturn(Report(Get(user).username, r.value))
       IN  /\ llm_summary' = r.value
           /\ pc' = next.pc
           /\ state' = next.state
           /\ crashed' = next.crashed
           /\ final_report' = next.report
    /\ UNCHANGED <<tweet, original_tweet_id, target_user_id, user,
                   recent_tweets_text, compiled_data>>
    /\ UNCHANGED boot_vars

\* line 151 threading the reply to the tweet the event replies to
ReplyTarget_Original(t) == t.referenced_tweets[1].id

\* line 151: in_reply_to_tweet_id=tweet.id
ReplyTarget(t) == t.id

\* lines 151-152: the reply post returns
CreateTweet(ok) ==
    /\ pc = "create_tweet"
    /\ calls' = Append(calls,
                       Call("create_tweet",
                            [text |-> final_report,
                             in_reply_to_tweet_id |-> ReplyTarget(tweet)],
                            [raises |-> ~ok]))
    /\ LET next == IF ok
                   THEN [pc |-> "listening", state |-> "Done",
                         crashed |-> FALSE, report |-> final_report]
                   ELSE OnTweetRaise("create_tweet", final_report)
       IN  /\ pc' = next.pc
           /\ state' = next.state
           /\ crashed' = next.crashed
    /\ UNCHANGED <<tweet, original_tweet_id, target_user_id, user,
                   recent_tweets_text, compiled_data, llm_summary, final_report>>
    /\ UNCHANGED boot_vars

\* an external call of the handler returns or raises, and the handler runs on
\* to its next call or to its end
CallReturns ==
    \/ /\ pc = "get_tweet"
       /\ \E resp \in TweetResponses(Get(original_tweet_id)) : GetTweet(resp)
    \/ /\ pc = "get_user"
       /\ \E resp \in UserResponses(target_user_id) : GetUser(resp)
    \/ /\ pc = "get_users_tweets"
       /\ \E resp \in TweetsResponses, now \in Clock : GetUsersTweets(resp, now)
    \/ /\ pc = "generate_content"
       /\ \E resp \in LLMResponses : GenerateContent(resp)
    \/ /\ pc = "create_tweet"
       /\ \E ok \in PostOutcomes : CreateTweet(ok)

Next ==
    \/ /\ StreamDelivers
       /\ \E t \in Events : OnTweet(t)
    \/ CallReturns

Spec == Init /\ [][Next]_vars

\* every call the handler blocks on returns or raises in the end
SpecFair == Spec /\ WF_vars(CallReturns)

(***************************************************************************)
(* The prompt of get_llm_analysis, lines 53-72, applied to a series of     *)
(* records; `calls` keeps each record with the prompt built from it.       *)
(***************************************************************************)
\* records as lines 104-114 compile them: every verification flag (None
\* included) with every bio
PromptRecords ==
    { CompiledData(u, NO_RECENT_TWEETS, now) :
          u \in { x \in Users("u_alice") :
                     /\ x.public_metrics = Some([followers_count |-> 1000,
                                                 following_count |-> 100])
                     /\ ~IsNone(x.created_at) },
          now \in Clock }

InitPrompt ==
    /\ pc = "prompt"
    /\ HandlerInit
    /\ Listening

\* lines 53-72: get_llm_analysis(user_data) builds its prompt
BuildPrompt(user_data) ==
    /\ pc = "prompt"
    /\ Len(calls) < MaxPrompts
    /\ compiled_data' = Some(user_data)
    /\ calls' = Append(calls,
                       Call("prompt", user_data,
                            [raises |-> FALSE, text |-> Prompt(user_data)]))
    /\ UNCHANGED <<pc, state, tweet, original_tweet_id, target_user_id, user,
                   recent_tweets_text, llm_summary, final_report, crashed>>
    /\ UNCHANGED boot_vars

NextPrompt == \E user_data \in PromptRecords : BuildPrompt(user_data)

SpecPrompt == InitPrompt /\ [][NextPrompt]_vars

(***************************************************************************)
(* Vocabulary of the properties.                                           *)
(***************************************************************************)
\* the positions of the calls of operation op issued for the current event
CallsOf(op) == {i \in DOMAIN calls : calls[i].op = op}

\* an event has been delivered to on_tweet
Delivered == tweet # NoTweet

\* the event is a reply: one of its relations is of type "replied_to"
IsReplyEvent(t) ==
    \E i \in DOMAIN t.referenced_tweets : t.referenced_tweets[i].type = "replied_to"

\* the id of the tweet the event replies to
RepliedToId(t) ==
    LET i == CHOOSE j \in DOMAIN t.referenced_tweets :
                 t.referenced_tweets[j].type = "replied_to"
    IN  t.referenced_tweets[i].id

\* the bodies that hold "riddle me this" in some letter case
PhraseTexts == {TextScenario, TextUpper, TextNoMention}

\* the reply post issued for the current event is the last call, carries
\* `text` and is threaded to the triggering event
RepliedWith(text) ==
    /\ calls # <<>>
    /\ calls[Len(calls)].op = "create_tweet"
    /\ calls[Len(calls)].arg = [text |-> text, in_reply_to_tweet_id |-> tweet.id]

\* the event is in Replying with `text`, or the reply post has been issued
\* with it
ProceedsToReply(text) ==
    /\ final_report = text
    /\ \/ pc = "create_tweet" /\ state = "Replying" /\ CallsOf("create_tweet") = {}
       \/ pc = "listening" /\ state \in {"Done", "Failed"} /\ RepliedWith(text)

\* C1: an event that is not a reply, or whose body lacks the trigger phrase,
\* is rejected by on_tweet and no external call (tweet lookup, profile fetch,
\* posts fetch, LLM call, reply post) is made for it.
C1_RejectedNoPipeline ==
    (Delivered /\ (~IsReplyEvent(tweet) \/ tweet.text \notin PhraseTexts))
        => (state = "Rejected" /\ pc = "listening" /\ calls = <<>>)

\* a quote of a tweet whose body holds the phrase has been rejected
C1_Witness ==
    /\ tweet = Event(2, TextScenario, <<Ref("quoted", 55)>>)
    /\ state = "Rejected"

\* C2: the event is accepted if and only if it has a relation of type
\* "replied_to" and its body holds the trigger phrase, whatever the number and
\* order of its relations.
C2_AcceptIffReplyWithPhrase ==
    Delivered =>
        ((state # "Rejected") <=> (IsReplyEvent(tweet) /\ tweet.text \in PhraseTexts))

\* the profile lookup of the current event answered with no profile
ProfileAbsent ==
    \E i \in CallsOf("get_user") : ~calls[i].resp.raises /\ IsNone(calls[i].resp.data)

\* C3: when the profile lookup yields no profile the final output is exactly
\* "Analysis Failed: User not found.", the LLM is not called, and the handler
\* goes to Replying and posts that text as a reply to the triggering event.
C3_UserNotFound ==
    ProfileAbsent =>
        /\ ProceedsToReply(<<"Analysis Failed: User not found.">>)
        /\ CallsOf("generate_content") = {}
        /\ CallsOf("get_users_tweets") = {}

\* the not-found text has been posted
C3_Witness ==
    /\ ProfileAbsent
    /\ state = "Done"
    /\ RepliedWith(<<"Analysis Failed: User not found.">>)

\* the profile lacks an attribute the record has no fallback for
PartialProfile(u) ==
    /\ ~IsNone(u)
    /\ \/ IsNone(Get(u).created_at)
       \/ IsNone(Get(u).public_metrics)
       \/ IsNone(Get(u).verified)

\* a retrieval step of the aggregator failed other than by an absent profile
RetrievalFailed ==
    \/ \E i \in CallsOf("get_user") : calls[i].resp.raises
    \/ \E i \in CallsOf("get_users_tweets") : calls[i].resp.raises
    \/ PartialProfile(user)

\* get_user_data_and_analyze has been called and has returned or raised
AggregatorLeft == CallsOf("get_user") # {} /\ pc \in {"create_tweet", "listening", "crashed"}

\* C4: when the profile fetch raises, the posts fetch raises or the response
\* is partial, the failure does not reach the dispatcher, the final output is
\* exactly "Analysis Failed: Could not retrieve complete user data from X."
\* and that text is posted as the reply.
C4_RetrievalFailure ==
    (AggregatorLeft /\ RetrievalFailed) =>
        /\ ~crashed
        /\ ProceedsToReply(
             <<"Analysis Failed: Could not retrieve complete user data from X.">>)

\* the single LLM call of the current event failed: the call raised, or the
\* response holds no text to read
LlmFailed ==
    \E i \in CallsOf("generate_content") :
        calls[i].resp.raises \/ IsNone(calls[i].resp.text)

\* the report template around `summary`, for the handle `username`
Template(username, summary) ==
    << ROBOT, " LLM-Powered Analysis for @", username, "\n",
       "-----------------------------------", "\n" >>
    \o summary \o
    << "\n", "-----------------------------------", "\n",
       "Analyzed by #ProjectRUGGUARD w/ Gemini 1.5 Flash" >>

\* C5: when the LLM call fails, get_llm_analysis does not raise, the final
\* reply is the full template with the fixed fallback sentence in place of
\* the analysis, and the reply post is still issued.
C5_LlmDegraded ==
    LlmFailed =>
        /\ ~crashed
        /\ llm_summary = <<"LLM analysis could not be performed due to an API error.">>
        /\ ProceedsToReply(
             Template(Get(user).username,
                      <<"LLM analysis could not be performed due to an API error.">>))

\* a response with no readable text was degraded and the reply posted
C5_Witness ==
    /\ \E i \in CallsOf("generate_content") :
           ~calls[i].resp.raises /\ IsNone(calls[i].resp.text)
    /\ state = "Done"
    /\ RepliedWith(final_report)

\* the lookup of the referenced tweet raised, gave no data or no author id
ResolutionFailed ==
    \E i \in CallsOf("get_tweet") :
        \/ calls[i].resp.raises
        \/ IsNone(calls[i].resp.data)
        \/ IsNone(Get(calls[i].resp.data).author_id)

\* C6: when the lookup of the referenced tweet fails or yields no author id,
\* the event ends in Failed, no reply is posted, and neither the aggregator
\* nor the LLM is called.
C6_ResolutionFailure ==
    ResolutionFailed =>
        /\ state = "Failed"
        /\ pc = "listening"
        /\ Len(calls) = 1
        /\ final_report = <<>>

\* a tweet found without an author id ended the event
C6_Witness ==
    /\ \E i \in CallsOf("get_tweet") :
           /\ ~calls[i].resp.raises
           /\ ~IsNone(calls[i].resp.data)
           /\ IsNone(Get(calls[i].resp.data).author_id)
    /\ state = "Failed"

\* C7: no exception leaves on_tweet, whatever the event and whatever fails;
\* the handler runs each event to its end and can then take the next event.
C7_NeverCrashes ==
    /\ ~crashed
    /\ pc # "crashed"
    /\ pc # "listening" => ENABLED Next
    /\ state \in {"Rejected", "Done", "Failed"} =>
           (pc = "listening" /\ ENABLED (\E t \in Events : OnTweet(t)))

\* the LLM call and the reply post both failed and the handler listens again
C7_Witness ==
    /\ LlmFailed
    /\ \E i \in CallsOf("create_tweet") : calls[i].resp.raises
    /\ pc = "listening"
    /\ state = "Failed"

\* C8: the reply post is attempted at most once per event; when it fails the
\* event is Failed and no further external call is made for it.
C8_NoRetry ==
    /\ Cardinality(CallsOf("create_tweet")) <= 1
    /\ \A i \in CallsOf("create_tweet") :
           /\ i = Len(calls)
           /\ pc = "listening"
           /\ state = (IF calls[i].resp.raises THEN "Failed" ELSE "Done")

\* a reply post has failed
C8_Witness ==
    /\ \E i \in CallsOf("create_tweet") : calls[i].resp.raises
    /\ state = "Failed"

\* the profile came with the attributes the record is computed from, and the
\* posts fetch returned
FetchedOk ==
    /\ \E i \in CallsOf("get_user") :
           /\ ~calls[i].resp.raises
           /\ ~IsNone(calls[i].resp.data)
           /\ ~IsNone(Get(calls[i].resp.data).created_at)
           /\ ~IsNone(Get(calls[i].resp.data).public_metrics)
    /\ \E j \in CallsOf("get_users_tweets") : ~calls[j].resp.raises

\* x is raw without its leading and trailing whitespace
IsTrimOf(x, raw) ==
    /\ x = <<>> \/ (x[1] \notin Whitespace /\ x[Len(x)] \notin Whitespace)
    /\ \E a \in 0..Len(raw) :
           /\ a + Len(x) <= Len(raw)
           /\ \A i \in 1..Len(x) : raw[a + i] = x[i]
           /\ \A i \in 1..Len(raw) :
                  (i <= a \/ i > a + Len(x)) => raw[i] \in Whitespace

\* the text the analysis client owes for the response it got
IsAnalysisOf(x, resp) ==
    IF resp.raises \/ IsNone(resp.text)
    THEN x = <<"LLM analysis could not be performed due to an API error.">>
    ELSE IsTrimOf(x, Get(resp.text))

\* C9: for an accepted event whose author is resolved and whose profile and
\* posts are fetched, exactly one prompt is sent to the LLM and exactly one
\* reply post is issued; the reply is the template for the handle of the
\* author of the tweet replied to (not of the triggering tweet), with the
\* text of the analysis client between the separators.
C9_OnePromptOneReply ==
    FetchedOk =>
        /\ Cardinality(CallsOf("generate_content")) =
               (IF pc = "generate_content" THEN 0 ELSE 1)
        /\ Cardinality(CallsOf("create_tweet")) = (IF pc = "listening" THEN 1 ELSE 0)
        /\ pc \in {"generate_content", "create_tweet", "listening"}
        /\ pc # "generate_content" =>
               /\ \A i \in CallsOf("generate_content") :
                      IsAnalysisOf(llm_summary, calls[i].resp)
               /\ ProceedsToReply(
                    Template(UsernameOf[AuthorOf[RepliedToId(tweet)]], llm_summary))

\* the end-to-end scenario of the spec: tweet 99 by alice, 1000 followers, 100
\* following, two posts, the LLM answers, the reply is posted
C9_Witness ==
    /\ FetchedOk
    /\ state = "Done"
    /\ tweet.text = TextScenario
    /\ RepliedToId(tweet) = 99
    /\ Get(compiled_data).username = "alice"
    /\ Get(compiled_data).follower_ratio = [float |-> TRUE, hundredths |-> 1000]
    /\ Get(compiled_data).age_days = 400
    /\ \E i \in CallsOf("get_users_tweets") :
           ~IsNone(calls[i].resp.data) /\ Len(Get(calls[i].resp.data)) = 2
    /\ llm_summary = <<"Engagement farming.", "\n", "Trust Signal: Red Flag">>

Abs(n) == IF n < 0 THEN -n ELSE n

\* C10 as stated: with following = 0 the ratio is 0 and nothing is raised;
\* with following > 0 the ratio of the record is followers / following.
C10_ExactRatio ==
    FetchedOk =>
        /\ ~IsNone(compiled_data)
        /\ LET f == Get(compiled_data).followers
               g == Get(compiled_data).following
               h == Get(compiled_data).follower_ratio.hundredths
           IN  /\ f = Get(Get(user).public_metrics).followers_count
               /\ g = Get(Get(user).public_metrics).following_count
               /\ g = 0 => h = 0
               /\ g > 0 => h * g = 100 * f

\* C10 amended: with following = 0 the ratio is 0 and nothing is raised; with
\* following > 0 the ratio of the record is followers / following rounded to
\* two decimal places (within half a hundredth of the quotient).
C10_RoundedRatio ==
    FetchedOk =>
        /\ ~IsNone(compiled_data)
        /\ final_report # DATA_FETCH_FAILED
        /\ LET f == Get(compiled_data).followers
               g == Get(compiled_data).following
               h == Get(compiled_data).follower_ratio.hundredths
           IN  /\ f = Get(Get(user).public_metrics).followers_count
               /\ g = Get(Get(user).public_metrics).following_count
               /\ g = 0 => h = 0
               /\ g > 0 => 2 * Abs(100 * f - h * g) <= g

\* a record was compiled for a profile that follows nobody
C10_Witness ==
    /\ FetchedOk
    /\ ~IsNone(compiled_data)
    /\ Get(compiled_data).following = 0
    /\ Get(compiled_data).followers = 3
    /\ Get(compiled_data).follower_ratio.hundredths = 0

\* C11: every field of the record handed to the prompt builder holds a value
\* or its fallback, never None: the bio is "Not provided." when the
\* description is absent or empty, the recent posts are the fixed placeholder
\* when the user has no post, whatever profile the platform returns (one
\* without the verification flag included).
C11_RecordPopulated ==
    ~IsNone(compiled_data) =>
        LET r == Get(compiled_data)
            u == Get(user)
        IN  /\ r.username = u.username
            /\ r.age_days \in Nat
            /\ r.created_at # ""
            /\ r.followers \in Nat /\ r.following \in Nat
            /\ r.follower_ratio.hundredths \in Nat
            /\ r.is_verified \in {Some(TRUE), Some(FALSE)}
            /\ r.bio # ""
            /\ (IsNone(u.description) \/ u.description = Some(""))
                   => r.bio = "Not provided."
            /\ r.recent_tweets # <<>>
            /\ (\E i \in CallsOf("get_users_tweets") : IsNone(calls[i].resp.data))
                   => r.recent_tweets = <<"No recent tweets found.">>


\* a configuration value is absent: the variable is not set, or set to nothing
Absent(v) == v \in {None, Some("")}

\* the process did not start: it ended before constructing a client and before
\* issuing any stream operation (reading, clearing or adding rules, opening)
NothingStarted == pc = "exited" /\ clients = {} /\ boot_calls = <<>>

\* C12: if one of the six configuration values is absent, the process ends with
\* the configuration error before any API client is constructed, before any
\* stream rule is changed and before the stream is opened; if all six are
\* present the configuration error is never raised.
C12_ConfigGate ==
    /\ ((\E k \in ConfigKeys : Absent(env[k])) /\ pc # "boot")
           => (fatal = "ValueError" /\ NothingStarted)
    /\ (\A k \in ConfigKeys : ~Absent(env[k])) => fatal # "ValueError"

\* only the LLM API key is missing, and the process has ended on it
C12_Witness ==
    /\ IsNone(env["GOOGLE_API_KEY"])
    /\ \A k \in ConfigKeys \ {"GOOGLE_API_KEY"} : env[k] = Some("secret")
    /\ fatal = "ValueError"
    /\ NothingStarted


\* the text "@projectruggaurd riddle me this"
BotRuleText ==
    <<"@","p","r","o","j","e","c","t","r","u","g","g","a","u","r","d"," ",
      "r","i","d","d","l","e"," ","m","e"," ","t","h","i","s">>

\* the positions of a stream operation among those this process has issued
BootCallsOf(op) == {i \in DOMAIN boot_calls : boot_calls[i] = op}

\* C13: whatever rules are registered when the process starts, the old rules
\* are all deleted before the new rule is added, the stream is opened only
\* after the rule is added, and from then on exactly one rule is registered,
\* "@projectruggaurd riddle me this"; a second start ends in the same rule set.
C13_RulesIdempotent ==
    /\ pc = "add_rules" => stream_rules = {}
    /\ pc \in {"filter", "listening"} =>
           /\ Cardinality(stream_rules) = 1
           /\ \A r \in stream_rules : r.value = BotRuleText
    /\ \A i \in BootCallsOf("add_rules") :
           \A j \in BootCallsOf("delete_rules") : j < i
    /\ \A i \in BootCallsOf("filter") :
           \E j \in BootCallsOf("add_rules") : j < i

\* the second start found the rule of the first, cleared it, added it again
\* and opened the stream
C13_Witness ==
    /\ runs = 2
    /\ pc = "listening"
    /\ boot_calls = <<"get_rules", "delete_rules", "add_rules", "filter">>
    /\ {r.value : r \in stream_rules} = {BotRuleText}
    /\ \E found \in SUBSET ({[id |-> 1, value |-> STREAM_RULE]} \cup ForeignRules) :
           /\ Cardinality(found) = 1
           /\ rules = Some(found)


\* the processing states an event leaves only by finishing or failing
InFlight == {"Resolving", "Analyzing", "Replying"}

\* C14: events are handled one at a time to completion: the handler takes an
\* event (which puts it in Rejected or Resolving) only when no event is in
\* Resolving, Analyzing or Replying, and every event in one of these states
\* reaches Done or Failed, given that each external call returns or raises.
C14_OneAtATime ==
    /\ [][state' \in {"Rejected", "Resolving"} => state \notin InFlight]_vars
    /\ (state \in InFlight) ~> (state \in {"Done", "Failed"})

\* an accepted event has been taken and is in flight: it is being resolved,
\* the handler's fields hold nothing of an earlier event
C14_Witness ==
    /\ state = "Resolving"
    /\ tweet.id = 2
    /\ calls = <<>>
    /\ IsNone(compiled_data)
    /\ final_report = <<>>


\* what a prompt prints after the label of the verification line
VerifiedRendering(prompt) ==
    prompt[1 + CHOOSE i \in DOMAIN prompt : prompt[i] = "- **X Verified Status:** "]

OpRank ==
    [op \in {"get_tweet", "get_user", "get_users_tweets", "generate_content",
             "create_tweet"} |->
        CASE op = "get_tweet" -> 1
          [] op = "get_user" -> 2
          [] op = "get_users_tweets" -> 3
          [] op = "generate_content" -> 4
          [] OTHER -> 5]

\* C16: for an accepted event the external operations are issued in the order
\* referenced-tweet lookup, profile fetch, posts fetch, LLM call, reply post:
\* each at most once, none before the ones ahead of it (only the reply post
\* may come early, after a failed step), and nothing follows the reply post.
C16_FixedOrder ==
    /\ \A i, j \in DOMAIN calls : i < j => OpRank[calls[i].op] < OpRank[calls[j].op]
    /\ \A i \in DOMAIN calls :
           IF calls[i].op = "create_tweet"
           THEN i = Len(calls) /\ i >= 3 /\ pc = "listening"
           ELSE OpRank[calls[i].op] = i
    /\ pc \in {"get_tweet", "get_user", "get_users_tweets", "generate_content"}
           => OpRank[pc] = Len(calls) + 1

\* an event went through all five operations
C16_Witness ==
    /\ state = "Done"
    /\ [i \in DOMAIN calls |-> calls[i].op] =
           <<"get_tweet", "get_user", "get_users_tweets", "generate_content",
             "create_tweet">>


\* the body mentions the bot's handle, in any letter case
HasMention(text) == Contains(Lower(<<"@">> \o BOT_USERNAME), Lower(text))

\* the analysis pipeline has been invoked for the current event
PipelineInvoked == state \notin {"Idle", "Rejected"} \/ calls # <<>>

\* C17 as stated: the pipeline is invoked for a delivered event only if the
\* event is a reply and its body holds both the mention @projectruggaurd and
\* the phrase "riddle me this", in any letter case.
C17_MentionAndPhrase ==
    PipelineInvoked =>
        /\ IsReplyEvent(tweet)
        /\ HasMention(tweet.text)
        /\ tweet.text \in PhraseTexts

\* C17 amended: the pipeline is invoked for a delivered event only if the first
\* relation of the event is "replied_to" and its body holds the phrase
\* "riddle me this" in any letter case; the handler does not look for the
\* mention, which is part of the stream rule only.
C17_ReplyAndPhrase ==
    PipelineInvoked =>
        /\ IsReplyEvent(tweet)
        /\ tweet.referenced_tweets[1].type = "replied_to"
        /\ tweet.text \in PhraseTexts

\* a reply holding the phrase without the mention has been analysed and
\* answered
C17_Witness ==
    /\ tweet.text = TextNoMention
    /\ ~HasMention(tweet.text)
    /\ state = "Done"
    /\ CallsOf("generate_content") # {}


\* C18: whatever the event and whatever the collaborators answer, at most one
\* reply is posted for it, and a posted reply is threaded to the id of the
\* event that held the trigger, never to the id of the tweet that event
\* replies to nor to any other id.
C18_ThreadedToTrigger ==
    /\ Cardinality(CallsOf("create_tweet")) <= 1
    /\ \A i \in CallsOf("create_tweet") :
           /\ calls[i].arg.in_reply_to_tweet_id = tweet.id
           /\ calls[i].arg.in_reply_to_tweet_id # tweet.referenced_tweets[1].id
           /\ calls[i].arg.in_reply_to_tweet_id # Get(original_tweet_id)

\* event 2, a reply to tweet 99, has been answered with a reply to event 2
C18_Witness ==
    /\ tweet.id = 2
    /\ original_tweet_id = Some(99)
    /\ state = "Done"
    /\ \E i \in CallsOf("create_tweet") :
           /\ ~calls[i].resp.raises
           /\ calls[i].arg.in_reply_to_tweet_id = 2


\* the two outputs that begin with "Analysis Failed"
AnalysisFailedTexts ==
    { <<"Analysis Failed: User not found.">>,
      <<"Analysis Failed: Could not retrieve complete user data from X.">> }

\* C19: the LLM is called only after the profile fetch and the posts fetch of
\* the event have both succeeded, in that order, and the record is assembled
\* with its nine fields; once the output is one of the two "Analysis Failed"
\* messages no LLM call was made for the event, and once the LLM has been
\* called the output is the full report template.
C19_LlmAfterRecord ==
    /\ (pc = "generate_content" \/ CallsOf("generate_content") # {}) =>
           /\ \E j \in CallsOf("get_user"), k \in CallsOf("get_users_tweets") :
                  /\ j < k
                  /\ \A i \in CallsOf("generate_content") : k < i
                  /\ ~calls[j].resp.raises /\ ~IsNone(calls[j].resp.data)
                  /\ ~calls[k].resp.raises
           /\ ~IsNone(compiled_data)
           /\ DOMAIN Get(compiled_data) =
                  {"username", "age_days", "created_at", "followers", "following",
                   "follower_ratio", "is_verified", "bio", "recent_tweets"}
    /\ final_report \in AnalysisFailedTexts => CallsOf("generate_content") = {}
    /\ CallsOf("generate_content") # {} =>
           /\ final_report = Template(Get(user).username, llm_summary)
           /\ final_report \notin AnalysisFailedTexts

\* the LLM was called with the record of alice's profile, the call raised, and
\* the report is the template all the same
C19_Witness ==
    /\ \E i \in CallsOf("generate_content") : calls[i].resp.raises
    /\ ~IsNone(compiled_data)
    /\ Get(compiled_data).username = "alice"
    /\ final_report = Template("alice", llm_summary)
    /\ pc = "create_tweet"

====
